---- MODULE Spec2Model ----
(***************************************************************************)
(* Kernel execution session of gui-executor: FunctionRunnableKernel.run    *)
(* (src/src/gui_executor/view.py) driving a MyClient                       *)
(* (src/src/gui_executor/client.py) attached to a MyKernel, together with  *)
(* the View slots that answer its input requests.                          *)
(*                                                                         *)
(* The worker is a sequential program; pc is its position between two      *)
(* blocking operations.  The kernel is the environment: the outcome of     *)
(* every channel read (a message, queue.Empty, another exception) is       *)
(* chosen nondeterministically.                                            *)
(***************************************************************************)
EXTENDS Integers, Sequences, FiniteSets, TLC

\* ------------------------------------------------------------------ bounds
MaxMsgs == 2       \* iopub messages one session consumes
MaxExc == 1        \* channel reads that raise something else than queue.Empty
MaxTimeouts == 2   \* the count of consecutive iopub timeouts saturates here
MaxPrompts == 1    \* messages read from the stdin channel
MaxViewPrompts == 1  \* input requests of one worker started by run_function
MaxKernels == 2    \* kernels View._start_new_kernel starts
MaxStreams == 3    \* stream messages the kernel publishes for one snippet
MaxForeign == 2    \* iopub messages of another client before the snippet's
MaxSnippets == 2   \* run_snippet calls of View._start_new_kernel

\* ------------------------------------------------------------------- data
\* msg_id values of the requests on the kernel.  execute() returns a fresh
\* one: the request before it on the same kernel (a probe of wait_for_ready,
\* an earlier run, a console) has the other.
Ids == {1, 2}
NewMsgId == 2

\* Text is a sequence of characters (one-character strings and tokens).
Whitespace == {" ", "\n"}

RECURSIVE rstrip(_)
rstrip(s) ==
    IF s = <<>> THEN s
    ELSE IF s[Len(s)] \in Whitespace THEN rstrip(SubSeq(s, 1, Len(s) - 1))
    ELSE s

\* rich.markup.escape: a backslash is put before every opening bracket of a
\* markup tag.
RECURSIVE escape(_)
escape(s) ==
    IF s = <<>> THEN <<>>
    ELSE IF Head(s) = "[" THEN <<"\\", "[">> \o escape(Tail(s))
    ELSE <<Head(s)>> \o escape(Tail(s))

\* '\n'.join(traceback)
RECURSIVE join(_)
join(lines) ==
    IF lines = <<>> THEN <<>>
    ELSE IF Len(lines) = 1 THEN lines[1]
    ELSE lines[1] \o <<"\n">> \o join(Tail(lines))

\* Text.from_ansi: the ANSI escape sequences are taken out of the text.
AnsiCodes == {"ESC[31m", "ESC[0m"}

RECURSIVE from_ansi(_)
from_ansi(s) ==
    IF s = <<>> THEN <<>>
    ELSE IF Head(s) \in AnsiCodes THEN from_ansi(Tail(s))
    ELSE <<Head(s)>> \o from_ansi(Tail(s))

Texts == {<<"2", "\n">>}
Html == <<"<", "b", ">", "\n">>
Png == <<"i", "V", "B", "O">>
Plain == <<"4", "2", " ">>
Traceback == << <<"ESC[31m", "Z", "D", "E", "ESC[0m">>, <<"1", "/", "0">> >>

\* The prompts of an input_request: input() without an argument has the
\* empty prompt.
Prompts == {<<>>, <<"Y", "/", "N", "?", " ">>, <<"[", "o", "k", "]">>}

\* func.__ui_input_request__: the prompt patterns the task declared, or None.
PatternChoices == {"None", "declared"}
DeclaredPatterns == {<<"Y", "/", "N", "?", " ">>}

\* FunctionRunnable.check_for_input: the declared patterns, right-stripped.
check_for_input(choice) ==
    IF choice = "None" THEN {} ELSE {rstrip(p) : p \in DeclaredPatterns}

\* pattern in prompt
IsSubstring(p, s) ==
    \E i \in 0..(Len(s) - Len(p)) : SubSeq(s, i + 1, i + Len(p)) = p

\* The dictionary test "key in content".
Has(d, key) == key \in DOMAIN d

MimeSets ==
    { {"text/html"}, {"image/png"}, {"text/plain"},
      {"text/html", "text/plain"}, {"image/png", "text/plain"},
      {"text/html", "image/png", "text/plain"} }

MimePayload(k) ==
    IF k = "text/html" THEN Html ELSE IF k = "image/png" THEN Png ELSE Plain

IopubContents(type) ==
    CASE type = "stream" ->
            {[name |-> <<"stdout">>, text |-> t] : t \in Texts}
            \cup {[name |-> <<"stdout">>]}
      [] type = "status" ->
            {[execution_state |-> s] : s \in {"idle", "busy", "starting"}}
      [] type = "display_data" ->
            {[data |-> [k \in ks |-> MimePayload(k)]] : ks \in MimeSets}
            \cup {[metadata |-> <<>>]}
      [] type = "execute_input" -> {[code |-> <<"c">>]}
      [] type = "error" ->
            {[traceback |-> Traceback], [ename |-> <<"E">>]}
      [] OTHER -> {[data |-> [k \in {"text/plain"} |-> Plain]]}

IopubTypes ==
    {"stream", "status", "display_data", "execute_input", "error",
     "execute_result"}

IopubMsg(p, t, c) ==
    [parent_header |-> [msg_id |-> p], msg_type |-> t, content |-> c]

\* What the iopub channel can deliver: every kind of message for the own
\* request, and the output, the idle status and an unknown kind of message
\* of another request.
IopubMsgs ==
    UNION { { IopubMsg(NewMsgId, t, c) : c \in IopubContents(t) }
            : t \in IopubTypes }
    \cup UNION { { IopubMsg(p, "stream", c) : c \in IopubContents("stream") }
                 : p \in Ids \ {NewMsgId} }
    \cup { IopubMsg(p, "status", [execution_state |-> "idle"])
           : p \in Ids \ {NewMsgId} }
    \cup { IopubMsg(p, "execute_result", c)
           : p \in Ids \ {NewMsgId}, c \in IopubContents("execute_result") }

StdinMsgs ==
    { [msg_type |-> "input_request", content |-> [prompt |-> p]]
      : p \in Prompts }
    \cup { [msg_type |-> "input_reply", content |-> [prompt |-> <<>>]] }

ShellMsgs ==
    { [msg_type |-> "execute_reply", content |-> [status |-> "ok"]],
      [msg_type |-> "execute_reply",
       content |-> [status |-> "error", traceback |-> Traceback]],
      [msg_type |-> "execute_reply", content |-> [status |-> "error"]],
      [msg_type |-> "execute_reply", content |-> [status |-> "aborted"]],
      [msg_type |-> "kernel_info_reply", content |-> [status |-> "ok"]] }

NoMsg == [msg_type |-> "none"]

\* A notification of FunctionThreadSignals: the signal, its payload and the
\* number of the iopub message that caused it (0: no iopub message did).
Event(sig, val, src) == [sig |-> sig, val |-> val, src |-> src]

ExcText == <<"exc">>
BannerText == <<"-", "-", "-", "-", "-">>
SnippetText == <<"snippet">>
UnknownTypeText == <<"Unknown io_msg_type">>
NoResultText == <<"No result received from kernel">>
NoPromptText == <<"No prompt was given">>
NoMatchText == <<"prompt does not match">>
StatusText == <<"status = 'error'">>

\* signals.finished.emit(self, func_name, success)
Finished(success) == Event("finished", <<success>>, 0)

Min(a, b) == IF a < b THEN a ELSE b

VARIABLES
    pc,            \* position of the worker in run()
    running,       \* FunctionRunnableKernel.running
    patterns,      \* _check_for_input / _input_patterns of the worker
    msg_id,        \* the msg_id returned by client.execute (0: none yet)
    channels,      \* the channels of the worker's MyClient
    events,        \* the notifications emitted so far, in order
    nMsgs,         \* iopub messages read so far
    nExc,          \* channel reads that raised so far
    nStdin,        \* stdin messages read so far
    timeouts,      \* consecutive iopub timeouts (saturating)
    last,          \* the message the last successful channel read returned
    idleAt,        \* number of the first idle status of the own request
    reply,         \* what collect_response_payload found on the shell channel
    inputQueue,    \* View.input_queue
    inputSignal,   \* input signals emitted and not yet handled by the View
    dialog,        \* View.question_dialog is open
    clientInputs,  \* the calls of client.input, in order
    answers,       \* the answers the operator gave, in order
    kernel,        \* the worker's kernel process: alive, interrupted, dead
    stdinPending,  \* the kernel waits for the reply to an input_request
    dialogOwner,   \* the worker whose prompt View.question_dialog stands for
    answerOwners,  \* for every answer given, the owner of the dialog answered
    wpc,           \* position of every worker started by View.run_function
    connected,     \* the signals of every worker connected to the View's slots
    uipc,          \* what the UI thread is doing
    sigQueue,      \* slot calls queued for the UI thread's event loop
    emitted,       \* the signals every worker emitted, in order
    delivered,     \* the signals of every worker the View's slots handled
    gui_apps,      \* View._gui_apps
    got,           \* for every worker, the number of the answer it took
    viewKernel,    \* View._kernel (0: None)
    kernelState,   \* for every kernel: not started, alive or shut down
    skpc,          \* position of the UI thread in View._start_new_kernel
    kpc,           \* position of every kernel worker in run()
    kKernel,       \* FunctionRunnableKernel.kernel of every kernel worker
    content,       \* the argument of MyKernel._decode_io_msg_content
    decoded,       \* what MyKernel._decode_io_msg_content did with it
    iopubQ,        \* iopub messages waiting for the client of a MyKernel
    published,     \* the stream texts the kernel published for the snippet
    snpc,          \* position in MyKernel.run_snippet
    io_msg_content,       \* _get_output: the content read last
    last_io_msg_content,  \* _get_output: the content read before it
    output,        \* what MyKernel.run_snippet returned
    kernelError,   \* MyKernel._error
    kernelReply,   \* run_snippet: the content of the reply read last
    errorBefore,   \* MyKernel._error when run_snippet was called
    environ,       \* os.environ
    saved_env,     \* execute: the copy of os.environ (empty: None)
    cmdEnv,        \* Command._env, the environment entries of the command
    cmdKind,       \* the class of the command
    cmdpc,         \* position in Command.execute
    environBefore, \* os.environ when execute was called
    cpc,           \* position of View._start_new_kernel in its use of MyClient
    cChannels,     \* the channels of that MyClient
    cKernelAlive,  \* the kernel of the MyKernel the client was made for runs
    cRequests,     \* requests sent on the shell channel, not yet handled
    cIopub,        \* messages waiting on the client's iopub channel
    cShell,        \* replies waiting on the client's shell channel
    cSent,         \* number of requests the client has sent
    cCalls,        \* number of run_snippet calls made
    cMsgId,        \* run_snippet: msg_id of the execute request
    cOutput,       \* run_snippet: the list output
    cError,        \* MyClient._error
    cReplied,      \* the requests whose reply the client has read
    cEndedBy,      \* parent of the idle status that ended the read loop
    cTextOf        \* parents of the stream messages collected in output

vars ==
    <<pc, running, patterns, msg_id, channels, events, nMsgs, nExc, nStdin,
      timeouts, last, idleAt, reply, inputQueue, inputSignal, dialog,
      clientInputs, answers, kernel, stdinPending, dialogOwner,
      answerOwners, wpc, connected, uipc, sigQueue, emitted, delivered,
      gui_apps, got, viewKernel, kernelState, skpc, kpc, kKernel,
      content, decoded, iopubQ, published, snpc, io_msg_content,
      last_io_msg_content, output, kernelError, kernelReply,
      errorBefore, environ, saved_env, cmdEnv, cmdKind, cmdpc, environBefore,
      cpc, cChannels, cKernelAlive, cRequests, cIopub, cShell, cSent,
      cCalls, cMsgId, cOutput, cError, cReplied, cEndedBy, cTextOf>>

\* The workers View.run_function can start.
Workers == {1, 2}

\* The state of View.run_function, its workers and their signals.
viewVars ==
    <<wpc, connected, uipc, sigQueue, emitted, delivered, gui_apps, got>>

workerVars ==
    <<pc, running, msg_id, channels, events, nMsgs, nExc, nStdin, timeouts,
      last, idleAt, reply, clientInputs>>

\* The kernels of the View, the argument and the result of
\* MyKernel._decode_io_msg_content, and a call of MyKernel.run_snippet.
kernelVars == <<viewKernel, kernelState, skpc, kpc, kKernel>>
decodeVars == <<content, decoded>>
snippetVars ==
    <<iopubQ, published, snpc, io_msg_content, last_io_msg_content, output,
      kernelError, kernelReply, errorBefore>>
commandVars ==
    <<environ, saved_env, cmdEnv, cmdKind, cmdpc, environBefore>>
clientVars ==
    <<cpc, cChannels, cKernelAlive, cRequests, cIopub, cShell, cSent,
      cCalls, cMsgId, cOutput, cError, cReplied, cEndedBy, cTextOf>>
otherVars ==
    <<kernelVars, decodeVars, snippetVars, commandVars, clientVars>>

\* What the UI thread is doing: the View method it is in, for which worker,
\* at which step.
Ui(op, w, step) == [op |-> op, w |-> w, step |-> step]
UiIdle == Ui("idle", 0, 0)

Kernels == 1..MaxKernels

\* A dictionary without keys.
NoContent == [k \in {} |-> <<>>]

\* _decode_io_msg_content has not been called.
NotDecoded == [done |-> FALSE, raised |-> FALSE, val |-> <<>>]

\* View.__init__, line 1159: no kernel yet, no kernel worker.
KernelIdle ==
    /\ viewKernel = 0
    /\ kernelState = [k \in Kernels |-> "none"]
    /\ skpc = "idle"
    /\ kpc = [w \in Workers |-> "none"]
    /\ kKernel = [w \in Workers |-> 0]

DecodeIdle ==
    /\ content = NoContent
    /\ decoded = NotDecoded

\* None, and a str object.
None == [none |-> TRUE, text |-> <<>>]
Str(t) == [none |-> FALSE, text |-> t]

SnippetIdle ==
    /\ iopubQ = <<>>
    /\ published = <<>>
    /\ snpc = "none"
    /\ io_msg_content = NoContent
    /\ last_io_msg_content = NoContent
    /\ output = <<>>
    /\ kernelError = None
    /\ kernelReply = NoContent
    /\ errorBefore = None

\* No command is being executed.
CommandIdle ==
    /\ environ = {}
    /\ saved_env = <<>>
    /\ cmdEnv = {}
    /\ cmdKind = "none"
    /\ cmdpc = "none"
    /\ environBefore = {}

\* The state after View.run_function has built the worker.
WorkerBuilt ==
    /\ pc = "new"
    /\ running = FALSE
    /\ patterns \in PatternChoices
    /\ msg_id = 0
    /\ channels = "none"
    /\ events = <<>>
    /\ nMsgs = 0
    /\ nExc = 0
    /\ nStdin = 0
    /\ timeouts = 0
    /\ last = NoMsg
    /\ idleAt = 0
    /\ reply = "none"
    /\ inputQueue = <<>>
    /\ inputSignal = 0
    /\ dialog = FALSE
    /\ clientInputs = <<>>
    /\ answers = <<>>
    /\ kernel = "alive"
    /\ stdinPending = FALSE
    /\ dialogOwner = 0
    /\ answerOwners = <<>>
    /\ wpc = [w \in Workers |-> "none"]
    /\ connected = [w \in Workers |-> {}]
    /\ uipc = UiIdle
    /\ sigQueue = <<>>
    /\ emitted = [w \in Workers |-> <<>>]
    /\ delivered = [w \in Workers |-> <<>>]
    /\ gui_apps = <<>>
    /\ got = [w \in Workers |-> 0]

\* MyClient.__init__, lines 16-27, for the kernel MyKernel(name) has just
\* started: no channel is open, nothing was sent, _error is None.
ClientBuilt ==
    /\ cpc = "new"
    /\ cChannels = "none"
    /\ cKernelAlive = TRUE
    /\ cRequests = <<>>
    /\ cIopub = <<>>
    /\ cShell = <<>>
    /\ cSent = 0
    /\ cCalls = 0
    /\ cMsgId = 0
    /\ cOutput = <<>>
    /\ cError = None
    /\ cReplied = {}
    /\ cEndedBy = 0
    /\ cTextOf = {}

Init ==
    /\ WorkerBuilt /\ KernelIdle /\ DecodeIdle /\ SnippetIdle /\ CommandIdle
    /\ ClientBuilt

\* ------------------------------------------------- FunctionRunnableKernel
emit(evs) == events' = events \o evs

\* The filter of line 377 left out: no message is skipped.
Skips_NoFilter(m, id) == FALSE

\* run(), line 377: the message belongs to another request.
Skips(m, id) == m.parent_header.msg_id # id

\* run(), lines 390-395: the idle status ends the read loop.
IsIdle(m) ==
    /\ m.msg_type = "status"
    /\ m.content.execution_state = "idle"

\* The representations of display_data tried in the order text/plain,
\* text/html, image/png.
IopubEmits_PlainFirst(m, n) ==
    LET c == m.content IN
    CASE m.msg_type = "stream" ->
            IF Has(c, "text") THEN <<Event("data", rstrip(c.text), n)>>
            ELSE <<>>
      [] m.msg_type = "status" -> <<>>
      [] m.msg_type = "display_data" ->
            IF ~Has(c, "data") THEN <<>>
            ELSE IF Has(c.data, "text/plain")
                 THEN <<Event("data", rstrip(c.data["text/plain"]), n)>>
            ELSE IF Has(c.data, "text/html")
                 THEN <<Event("html", rstrip(c.data["text/html"]), n)>>
            ELSE IF Has(c.data, "image/png")
                 THEN <<Event("png", c.data["image/png"], n)>>
            ELSE <<>>
      [] m.msg_type = "execute_input" -> <<>>
      [] m.msg_type = "error" ->
            IF Has(c, "traceback")
            THEN <<Event("data", from_ansi(join(c.traceback)), n)>>
            ELSE <<>>
      [] OTHER -> <<Event("error", UnknownTypeText, n)>>

\* run(), lines 386-426: the notifications one iopub message of the own
\* request produces; n is the number of the message.
IopubEmits(m, n) ==
    LET c == m.content IN
    CASE m.msg_type = "stream" ->
            IF Has(c, "text") THEN <<Event("data", rstrip(c.text), n)>>
            ELSE <<>>
      [] m.msg_type = "status" -> <<>>
      [] m.msg_type = "display_data" ->
            IF ~Has(c, "data") THEN <<>>
            ELSE IF Has(c.data, "text/html")
                 THEN <<Event("html", rstrip(c.data["text/html"]), n)>>
            ELSE IF Has(c.data, "image/png")
                 THEN <<Event("png", c.data["image/png"], n)>>
            ELSE IF Has(c.data, "text/plain")
                 THEN <<Event("data", rstrip(c.data["text/plain"]), n)>>
            ELSE <<>>
      [] m.msg_type = "execute_input" -> <<>>
      [] m.msg_type = "error" ->
            IF Has(c, "traceback")
            THEN <<Event("data", from_ansi(join(c.traceback)), n)>>
            ELSE <<>>
      [] OTHER -> <<Event("error", UnknownTypeText, n)>>

\* run(), lines 350-362: the worker starts and announces the snippet.
RunStart ==
    /\ pc = "new"
    /\ running' = TRUE
    /\ emit(<<Event("data", BannerText, 0), Event("data", SnippetText, 0),
              Event("data", SnippetText, 0), Event("data", <<>>, 0)>>)
    /\ pc' = "connect"
    /\ UNCHANGED <<patterns, msg_id, channels, nMsgs, nExc, nStdin, timeouts,
                   last, idleAt, reply, inputQueue, inputSignal, dialog,
                   clientInputs, answers, kernel>>
    /\ UNCHANGED <<stdinPending, dialogOwner, answerOwners, viewVars, otherVars>>

\* run(), lines 362-364, MyClient.connect: the kernel answers the probe.
ConnectOk ==
    /\ pc = "connect"
    /\ kernel # "dead"
    /\ channels' = "open"
    /\ pc' = "execute"
    /\ UNCHANGED <<running, patterns, msg_id, events, nMsgs, nExc, nStdin,
                   timeouts, last, idleAt, reply, inputQueue, inputSignal,
                   dialog, clientInputs, answers, kernel>>
    /\ UNCHANGED <<stdinPending, dialogOwner, answerOwners, viewVars, otherVars>>

\* run(), lines 363-367: starting the channels raises a RuntimeError
\* (client.py line 47, outside the try of start_channels).
ConnectRuntimeError ==
    /\ pc = "connect"
    /\ channels' = "open"
    /\ emit(<<Event("error", ExcText, 0)>>)
    /\ pc' = "returned"
    /\ UNCHANGED <<running, patterns, msg_id, nMsgs, nExc, nStdin, timeouts,
                   last, idleAt, reply, inputQueue, inputSignal, dialog,
                   clientInputs, answers, kernel>>
    /\ UNCHANGED <<stdinPending, dialogOwner, answerOwners, viewVars, otherVars>>

\* MyClient.wait_for_ready, lines 73-76: the TimeoutError is no RuntimeError,
\* neither start_channels (line 50) nor run() (line 365) catches it.
ConnectTimeout ==
    /\ pc = "connect"
    /\ channels' = "open"
    /\ pc' = "raised"
    /\ UNCHANGED <<running, patterns, msg_id, events, nMsgs, nExc, nStdin,
                   timeouts, last, idleAt, reply, inputQueue, inputSignal,
                   dialog, clientInputs, answers, kernel>>
    /\ UNCHANGED <<stdinPending, dialogOwner, answerOwners, viewVars, otherVars>>

\* run(), line 369, MyClient.execute.
Execute ==
    /\ pc = "execute"
    /\ msg_id' = NewMsgId
    /\ pc' = "iopub"
    /\ UNCHANGED <<running, patterns, channels, events, nMsgs, nExc, nStdin,
                   timeouts, last, idleAt, reply, inputQueue, inputSignal,
                   dialog, clientInputs, answers, kernel>>
    /\ UNCHANGED <<stdinPending, dialogOwner, answerOwners, viewVars, otherVars>>

\* run(), lines 375-426: an iopub message arrives within the timeout.
GetIopubMsg ==
    /\ pc = "iopub"
    /\ kernel # "dead"
    /\ nMsgs < MaxMsgs
    /\ \E m \in IopubMsgs :
          /\ last' = m
          /\ nMsgs' = nMsgs + 1
          /\ timeouts' = 0
          /\ IF Skips(m, msg_id)
             THEN UNCHANGED <<pc, events, idleAt>>
             ELSE /\ emit(IopubEmits(m, nMsgs + 1))
                  /\ IF IsIdle(m)
                     THEN /\ pc' = "shell"
                          /\ idleAt' = IF idleAt = 0 THEN nMsgs + 1 ELSE idleAt
                     ELSE UNCHANGED <<pc, idleAt>>
    /\ UNCHANGED <<running, patterns, msg_id, channels, nExc, nStdin, reply,
                   inputQueue, inputSignal, dialog, clientInputs, answers,
                   kernel>>
    /\ UNCHANGED <<stdinPending, dialogOwner, answerOwners, viewVars, otherVars>>

\* The timeout of the iopub read taken for the end of the output.
GetIopubEmpty_GivesUp ==
    /\ pc = "iopub"
    /\ timeouts' = Min(timeouts + 1, MaxTimeouts)
    /\ pc' = "finish"
    /\ UNCHANGED <<running, patterns, msg_id, channels, events, nMsgs, nExc,
                   nStdin, last, idleAt, reply, inputQueue, inputSignal,
                   dialog, clientInputs, answers, kernel>>
    /\ UNCHANGED <<stdinPending, dialogOwner, answerOwners, viewVars, otherVars>>

\* run(), lines 375 and 428-433: no iopub message within the timeout.
GetIopubEmpty ==
    /\ pc = "iopub"
    /\ timeouts' = Min(timeouts + 1, MaxTimeouts)
    /\ pc' = "stdin"
    /\ UNCHANGED <<running, patterns, msg_id, channels, events, nMsgs, nExc,
                   nStdin, last, idleAt, reply, inputQueue, inputSignal,
                   dialog, clientInputs, answers, kernel>>
    /\ UNCHANGED <<stdinPending, dialogOwner, answerOwners, viewVars, otherVars>>

\* run(), lines 375 and 441-444: the iopub read raises another exception;
\* the loop goes on.
GetIopubExc ==
    /\ pc = "iopub"
    /\ nExc < MaxExc
    /\ nExc' = nExc + 1
    /\ timeouts' = 0
    /\ emit(<<Event("data", ExcText, 0)>>)
    /\ UNCHANGED <<pc, running, patterns, msg_id, channels, nMsgs, nStdin,
                   last, idleAt, reply, inputQueue, inputSignal, dialog,
                   clientInputs, answers, kernel>>
    /\ UNCHANGED <<stdinPending, dialogOwner, answerOwners, viewVars, otherVars>>

\* The prompt written to the console without the input signal.
PromptEmits_NoSignal(prompt) == <<Event("data", escape(prompt), 0)>>

\* handle_input_request(), lines 460-475: the notifications for a prompt.
PromptEmits(prompt) ==
    (IF /\ patterns # "None"
        /\ \A pat \in check_for_input(patterns) : ~IsSubstring(pat, prompt)
     THEN <<Event("data", NoMatchText, 0)>>
     ELSE <<>>)
    \o <<Event("data", escape(prompt), 0), Event("input", prompt, 0)>>

\* run(), lines 432-440 with handle_input_request(), lines 460-475 and
\* 480-493: the stdin poll returns a message.
GetStdinMsg ==
    /\ pc = "stdin"
    /\ kernel # "dead"
    /\ nStdin < MaxPrompts
    /\ \E m \in StdinMsgs :
          /\ last' = m
          /\ nStdin' = nStdin + 1
          /\ IF m.msg_type # "input_request"
             THEN /\ pc' = "iopub"
                  /\ UNCHANGED <<events, inputSignal, clientInputs, timeouts,
                                 stdinPending>>
             ELSE IF m.content.prompt # <<>>
             THEN /\ emit(PromptEmits(m.content.prompt))
                  /\ inputSignal' = inputSignal + 1
                  /\ timeouts' = 0
                  /\ pc' = "wait_answer"
                  /\ stdinPending' = TRUE
                  /\ UNCHANGED clientInputs
             ELSE /\ emit(<<Event("data", NoPromptText, 0)>>)
                  /\ clientInputs' = Append(clientInputs, "")
                  /\ timeouts' = 0
                  /\ pc' = "iopub"
                  /\ stdinPending' = FALSE
                  /\ UNCHANGED inputSignal
    /\ UNCHANGED <<running, patterns, msg_id, channels, nMsgs, nExc, idleAt,
                   reply, inputQueue, dialog, answers, kernel>>
    /\ UNCHANGED <<dialogOwner, answerOwners, viewVars, otherVars>>

\* run(), lines 432-433: the stdin poll times out too; contextlib.suppress
\* swallows the queue.Empty and the loop goes back to the iopub read.
GetStdinEmpty ==
    /\ pc = "stdin"
    /\ pc' = "iopub"
    /\ UNCHANGED <<running, patterns, msg_id, channels, events, nMsgs, nExc,
                   nStdin, timeouts, last, idleAt, reply, inputQueue,
                   inputSignal, dialog, clientInputs, answers, kernel>>
    /\ UNCHANGED <<stdinPending, dialogOwner, answerOwners, viewVars, otherVars>>

\* run(), lines 428-433: the stdin poll raises another exception.  It is
\* raised inside the handler of queue.Empty, so the clause of line 441 of
\* the same try statement does not catch it: it leaves run().
GetStdinExc ==
    /\ pc = "stdin"
    /\ nExc < MaxExc
    /\ nExc' = nExc + 1
    /\ timeouts' = 0
    /\ pc' = "raised"
    /\ UNCHANGED <<running, patterns, msg_id, channels, events, nMsgs, nStdin,
                   last, idleAt, reply, inputQueue, inputSignal, dialog,
                   clientInputs, answers, kernel>>
    /\ UNCHANGED <<stdinPending, dialogOwner, answerOwners, viewVars, otherVars>>

\* The answer taken from the queue and not passed on to client.input.
AnswerTaken_NotSent ==
    /\ pc = "wait_answer"
    /\ inputQueue # <<>>
    /\ inputQueue' = Tail(inputQueue)
    /\ pc' = "iopub"
    /\ UNCHANGED <<running, patterns, msg_id, channels, events, nMsgs, nExc,
                   nStdin, timeouts, last, idleAt, reply, inputSignal, dialog,
                   clientInputs, answers, kernel>>
    /\ stdinPending' = FALSE
    /\ UNCHANGED <<dialogOwner, answerOwners, viewVars, otherVars>>

\* handle_input_request(), lines 477-479, and run(), line 440: the worker
\* takes the answer from the queue and sends it to the kernel.
AnswerTaken ==
    /\ pc = "wait_answer"
    /\ inputQueue # <<>>
    /\ inputQueue' = Tail(inputQueue)
    /\ clientInputs' = Append(clientInputs, Head(inputQueue))
    /\ pc' = "iopub"
    /\ UNCHANGED <<running, patterns, msg_id, channels, events, nMsgs, nExc,
                   nStdin, timeouts, last, idleAt, reply, inputSignal, dialog,
                   answers, kernel>>
    /\ stdinPending' = FALSE
    /\ UNCHANGED <<dialogOwner, answerOwners, viewVars, otherVars>>

\* collect_response_payload(), lines 504-516: the notifications for a reply.
ReplyEmits(r) ==
    IF /\ r.msg_type = "execute_reply"
       /\ r.content.status = "error"
       /\ Has(r.content, "traceback")
    THEN <<Event("data", StatusText, 0),
           Event("data", from_ansi(join(r.content.traceback)), 0)>>
    ELSE <<>>

\* collect_response_payload(), lines 497 and 504-516, then the break of
\* run(), line 395: a shell message arrives within the timeout.
CollectReplyMsg ==
    /\ pc = "shell"
    /\ kernel # "dead"
    /\ \E r \in ShellMsgs :
          /\ last' = r
          /\ reply' = IF r.msg_type = "execute_reply"
                      THEN r.content.status ELSE "other"
          /\ emit(ReplyEmits(r))
    /\ pc' = "finish"
    /\ UNCHANGED <<running, patterns, msg_id, channels, nMsgs, nExc, nStdin,
                   timeouts, idleAt, inputQueue, inputSignal, dialog,
                   clientInputs, answers, kernel>>
    /\ UNCHANGED <<stdinPending, dialogOwner, answerOwners, viewVars, otherVars>>

\* collect_response_payload(), lines 498-502: no shell reply in time.
CollectReplyEmpty ==
    /\ pc = "shell"
    /\ reply' = "timeout"
    /\ emit(<<Event("data", NoResultText, 0)>>)
    /\ pc' = "finish"
    /\ UNCHANGED <<running, patterns, msg_id, channels, nMsgs, nExc, nStdin,
                   timeouts, last, idleAt, inputQueue, inputSignal, dialog,
                   clientInputs, answers, kernel>>
    /\ UNCHANGED <<stdinPending, dialogOwner, answerOwners, viewVars, otherVars>>

\* collect_response_payload(), line 497: the shell read raises another
\* exception; run(), lines 441-444, catches it and the loop goes on.
CollectReplyExc ==
    /\ pc = "shell"
    /\ nExc < MaxExc
    /\ nExc' = nExc + 1
    /\ emit(<<Event("data", ExcText, 0)>>)
    /\ pc' = "iopub"
    /\ UNCHANGED <<running, patterns, msg_id, channels, nMsgs, nStdin,
                   timeouts, last, idleAt, reply, inputQueue, inputSignal,
                   dialog, clientInputs, answers, kernel>>
    /\ UNCHANGED <<stdinPending, dialogOwner, answerOwners, viewVars, otherVars>>

\* The finished notification emitted without leaving the read loop.
Finish_InLoop ==
    /\ pc = "finish"
    /\ channels' = "closed"
    /\ running' = FALSE
    /\ emit(<<Finished("True")>>)
    /\ pc' = "iopub"
    /\ UNCHANGED <<patterns, msg_id, nMsgs, nExc, nStdin, timeouts, last,
                   idleAt, reply, inputQueue, inputSignal, dialog,
                   clientInputs, answers, kernel>>
    /\ UNCHANGED <<stdinPending, dialogOwner, answerOwners, viewVars, otherVars>>

\* run(), lines 446-448.
Finish ==
    /\ pc = "finish"
    /\ channels' = "closed"
    /\ running' = FALSE
    /\ emit(<<Finished("True")>>)
    /\ pc' = "done"
    /\ UNCHANGED <<patterns, msg_id, nMsgs, nExc, nStdin, timeouts, last,
                   idleAt, reply, inputQueue, inputSignal, dialog,
                   clientInputs, answers, kernel>>
    /\ UNCHANGED <<stdinPending, dialogOwner, answerOwners, viewVars, otherVars>>

\* --------------------------------------------------------------------- View
\* View.input_request: the slot of the input signal opens the dialog.
input_request ==
    /\ inputSignal > 0
    /\ inputSignal' = inputSignal - 1
    /\ dialog' = TRUE
    /\ UNCHANGED <<workerVars, patterns, inputQueue, answers, kernel>>
    /\ dialogOwner' = 1
    /\ UNCHANGED <<stdinPending, answerOwners, viewVars, otherVars>>

\* View.answer: the operator presses Yes or No.
answer ==
    /\ dialog
    /\ \E msg \in {"Y", "N"} :
          /\ inputQueue' = Append(inputQueue, msg)
          /\ answers' = Append(answers, msg)
    /\ dialog' = FALSE
    /\ UNCHANGED <<workerVars, patterns, inputSignal, kernel>>
    /\ uipc = UiIdle
    /\ answerOwners' = Append(answerOwners, dialogOwner)
    /\ UNCHANGED <<stdinPending, dialogOwner, viewVars, otherVars>>

Active == pc \in {"iopub", "stdin", "wait_answer", "shell"}

\* The kernel is interrupted while the session runs.  View.interrupt_kernel
\* cannot do it (MyKernel has no method interrupt_kernel, the slot raises an
\* AttributeError); a console attached to the kernel through its connection
\* file (start_qtconsole) can.
KernelInterrupt ==
    /\ Active
    /\ kernel = "alive"
    /\ kernel' = "interrupted"
    /\ UNCHANGED <<workerVars, patterns, inputQueue, inputSignal, dialog,
                   answers>>
    /\ stdinPending' = FALSE
    /\ UNCHANGED <<dialogOwner, answerOwners, viewVars, otherVars>>

\* View._start_new_kernel, lines 1354-1355: the kernel the worker is
\* attached to is shut down while the session runs.
ShutdownKernel ==
    /\ Active
    /\ kernel # "dead"
    /\ kernel' = "dead"
    /\ UNCHANGED <<workerVars, patterns, inputQueue, inputSignal, dialog,
                   answers>>
    /\ stdinPending' = FALSE
    /\ UNCHANGED <<dialogOwner, answerOwners, viewVars, otherVars>>

Worker ==
    \/ RunStart
    \/ ConnectOk
    \/ ConnectRuntimeError
    \/ ConnectTimeout
    \/ Execute
    \/ GetIopubMsg
    \/ GetIopubEmpty
    \/ GetIopubExc
    \/ GetStdinMsg
    \/ GetStdinEmpty
    \/ GetStdinExc
    \/ AnswerTaken
    \/ CollectReplyMsg
    \/ CollectReplyEmpty
    \/ CollectReplyExc
    \/ Finish

Next ==
    \/ Worker
    \/ input_request
    \/ answer
    \/ KernelInterrupt
    \/ ShutdownKernel

Spec == Init /\ [][Next]_vars

\* The thread pool keeps running the worker thread.
FairSpec == Spec /\ WF_vars(Worker)

\* ------------------------------------------------ View.run_function
\* The View with the workers it starts.  A worker is run() reduced to the
\* signals it emits; the signals reach the View's slots through the event
\* loop of the UI thread (the worker emits in its own thread).

\* What the single-session specification keeps to itself.
sessionVars ==
    <<pc, running, patterns, msg_id, channels, events, nMsgs, nExc, nStdin,
      timeouts, last, idleAt, reply, inputSignal, clientInputs, kernel,
      stdinPending>>

\* run_function, lines 1435-1440: the order in which the signals are
\* connected.
ConnectOrder == <<"data", "html", "png", "finished", "error", "input">>

IsInputSignal(sig) == sig = "input"

\* signals.<sig>.emit: a slot call is queued for every signal of sigs that
\* is connected at this moment; a signal nobody is connected to is dropped.
RECURSIVE Queued(_, _)
Queued(w, sigs) ==
    IF sigs = <<>> THEN <<>>
    ELSE (IF Head(sigs) \in connected[w]
          THEN <<[w |-> w, sig |-> Head(sigs)]>> ELSE <<>>)
         \o Queued(w, Tail(sigs))

Emit(w, sigs) ==
    /\ emitted' = [emitted EXCEPT ![w] = @ \o sigs]
    /\ sigQueue' = sigQueue \o Queued(w, sigs)

\* FunctionThreadSignals, lines 178-201: what a slot call carries.  data,
\* html, png, error and input are declared with the payload as their only
\* argument; finished alone passes the runnable (0: no runnable passed).
\* function_output and function_output_html, lines 1601-1607, append that
\* payload to the one console panel of the View.
SlotArguments(s) ==
    [sig |-> s.sig, runnable |-> IF s.sig = "finished" THEN s.w ELSE 0]

\* run_function, lines 1425-1433: the worker is built and started, before
\* any of its signals is connected.  The function buttons are disabled
\* while a question dialog is open (input_request, line 1663).
run_function ==
    /\ uipc = UiIdle
    /\ ~dialog
    /\ \E w \in Workers :
          /\ wpc[w] = "none"
          /\ \A v \in Workers : v < w => wpc[v] # "none"
          /\ wpc' = [wpc EXCEPT ![w] = "new"]
          /\ uipc' = Ui("run_function", w, 1)
    /\ UNCHANGED <<sessionVars, otherVars, inputQueue, dialog, answers, dialogOwner,
                   answerOwners, connected, sigQueue, emitted, delivered,
                   gui_apps, got>>

\* run_function, lines 1435-1440: the next signal is connected.
ConnectSignal ==
    /\ uipc.op = "run_function"
    /\ uipc.step <= Len(ConnectOrder)
    /\ connected' = [connected EXCEPT
                        ![uipc.w] = @ \cup {ConnectOrder[uipc.step]}]
    /\ uipc' = Ui("run_function", uipc.w, uipc.step + 1)
    /\ UNCHANGED <<sessionVars, otherVars, inputQueue, dialog, answers, dialogOwner,
                   answerOwners, wpc, sigQueue, emitted, delivered, gui_apps,
                   got>>

\* run_function, line 1443.
AppendWorker ==
    /\ uipc.op = "run_function"
    /\ uipc.step = Len(ConnectOrder) + 1
    /\ gui_apps' = Append(gui_apps, uipc.w)
    /\ uipc' = UiIdle
    /\ UNCHANGED <<sessionVars, otherVars, inputQueue, dialog, answers, dialogOwner,
                   answerOwners, wpc, connected, sigQueue, emitted, delivered,
                   got>>

\* list.remove: the first occurrence is taken out (function_complete
\* catches the ValueError when there is none).
RECURSIVE Remove(_, _)
Remove(seq, x) ==
    IF seq = <<>> THEN <<>>
    ELSE IF Head(seq) = x THEN Tail(seq)
    ELSE <<Head(seq)>> \o Remove(Tail(seq), x)

\* The event loop of the UI thread calls the slot of the next queued signal:
\* function_output / function_output_html / function_output_png /
\* function_error, function_complete (lines 1631-1643) or input_request
\* (lines 1650-1669), which replaces View.question_dialog.
Slot ==
    /\ uipc = UiIdle
    /\ sigQueue # <<>>
    /\ LET s == Head(sigQueue) IN
          /\ sigQueue' = Tail(sigQueue)
          /\ delivered' = [delivered EXCEPT ![s.w] = Append(@, s.sig)]
          /\ gui_apps' = IF s.sig = "finished" THEN Remove(gui_apps, s.w)
                         ELSE gui_apps
          /\ IF s.sig = "input"
             THEN dialog' = TRUE /\ dialogOwner' = s.w
             ELSE UNCHANGED <<dialog, dialogOwner>>
    /\ UNCHANGED <<sessionVars, otherVars, inputQueue, answers, answerOwners, wpc,
                   connected, uipc, emitted, got>>

\* View._start_new_kernel, lines 1352-1402, called by the UI thread (the
\* timer of line 1238, the toolbar action of line 1254): step 1 is
\* MyKernel(name) and MyClient.connect waiting for the kernel_info_reply,
\* step 2 is get_kernel_info (get_shell_msg without timeout), step 3 the
\* iopub and shell reads of run_snippet.
start_new_kernel ==
    /\ uipc = UiIdle
    /\ uipc' = Ui("_start_new_kernel", 0, 1)
    /\ UNCHANGED <<sessionVars, otherVars, inputQueue, dialog, answers, dialogOwner,
                   answerOwners, wpc, connected, sigQueue, emitted, delivered,
                   gui_apps, got>>

\* The kernel sends what the UI thread is waiting for in _start_new_kernel.
StartKernelReceive ==
    /\ uipc.op = "_start_new_kernel"
    /\ uipc' = IF uipc.step < 3 THEN Ui("_start_new_kernel", 0, uipc.step + 1)
               ELSE UiIdle
    /\ UNCHANGED <<sessionVars, otherVars, inputQueue, dialog, answers, dialogOwner,
                   answerOwners, wpc, connected, sigQueue, emitted, delivered,
                   gui_apps, got>>

\* run(), lines 350-362, of a worker of run_function.
WRunStart(w) ==
    /\ wpc[w] = "new"
    /\ Emit(w, <<"data", "data", "data", "data">>)
    /\ wpc' = [wpc EXCEPT ![w] = "connect"]
    /\ UNCHANGED <<sessionVars, otherVars, inputQueue, dialog, answers, dialogOwner,
                   answerOwners, connected, uipc, delivered, gui_apps, got>>

\* run(), lines 362-364.
WConnectOk(w) ==
    /\ wpc[w] = "connect"
    /\ wpc' = [wpc EXCEPT ![w] = "stream"]
    /\ UNCHANGED <<sessionVars, otherVars, inputQueue, dialog, answers, dialogOwner,
                   answerOwners, connected, uipc, sigQueue, emitted, delivered,
                   gui_apps, got>>

\* run(), lines 363-367.
WConnectRuntimeError(w) ==
    /\ wpc[w] = "connect"
    /\ Emit(w, <<"error">>)
    /\ wpc' = [wpc EXCEPT ![w] = "returned"]
    /\ UNCHANGED <<sessionVars, otherVars, inputQueue, dialog, answers, dialogOwner,
                   answerOwners, connected, uipc, delivered, gui_apps, got>>

\* run(), line 363: wait_for_ready raises TimeoutError, which line 365 does
\* not catch.
WConnectTimeout(w) ==
    /\ wpc[w] = "connect"
    /\ wpc' = [wpc EXCEPT ![w] = "raised"]
    /\ UNCHANGED <<sessionVars, otherVars, inputQueue, dialog, answers, dialogOwner,
                   answerOwners, connected, uipc, sigQueue, emitted, delivered,
                   gui_apps, got>>

\* run(), lines 432-440, and handle_input_request(), lines 474-475: an
\* input_request with a prompt.
WPrompt(w) ==
    /\ wpc[w] = "stream"
    /\ Len(SelectSeq(emitted[w], IsInputSignal)) < MaxViewPrompts
    /\ Emit(w, <<"data", "input">>)
    /\ wpc' = [wpc EXCEPT ![w] = "wait_answer"]
    /\ UNCHANGED <<sessionVars, otherVars, inputQueue, dialog, answers, dialogOwner,
                   answerOwners, connected, uipc, delivered, gui_apps, got>>

\* handle_input_request(), lines 477-479: the worker takes the next answer
\* of the queue all workers share.
WAnswerTaken(w) ==
    /\ wpc[w] = "wait_answer"
    /\ inputQueue # <<>>
    /\ got' = [got EXCEPT ![w] = Len(answers) - Len(inputQueue) + 1]
    /\ inputQueue' = Tail(inputQueue)
    /\ wpc' = [wpc EXCEPT ![w] = "stream"]
    /\ UNCHANGED <<sessionVars, otherVars, dialog, answers, dialogOwner, answerOwners,
                   connected, uipc, sigQueue, emitted, delivered, gui_apps>>

\* run(), lines 390-395 and 446-448: the idle status, then finished.
WFinish(w) ==
    /\ wpc[w] = "stream"
    /\ Emit(w, <<"finished">>)
    /\ wpc' = [wpc EXCEPT ![w] = "done"]
    /\ UNCHANGED <<sessionVars, otherVars, inputQueue, dialog, answers, dialogOwner,
                   answerOwners, connected, uipc, delivered, gui_apps, got>>

ViewNext ==
    \/ run_function
    \/ ConnectSignal
    \/ AppendWorker
    \/ Slot
    \/ answer
    \/ start_new_kernel
    \/ StartKernelReceive
    \/ \E w \in Workers : WRunStart(w)
    \/ \E w \in Workers : WConnectOk(w)
    \/ \E w \in Workers : WConnectRuntimeError(w)
    \/ \E w \in Workers : WConnectTimeout(w)
    \/ \E w \in Workers : WPrompt(w)
    \/ \E w \in Workers : WAnswerTaken(w)
    \/ \E w \in Workers : WFinish(w)

ViewInit == Init /\ patterns = "None"

ViewSpec == ViewInit /\ [][ViewNext]_vars

\* ------------------------------------------------ the kernels of the View
\* View.start_kernel and View._start_new_kernel on the UI thread, and the
\* kernel workers of View.run_function: run() up to the submission of the
\* snippet.

allButKernel ==
    <<sessionVars, inputQueue, dialog, answers, dialogOwner, answerOwners,
      viewVars, decodeVars, snippetVars, commandVars, clientVars>>

\* The kernel MyKernel(name) starts next.
NextKernel == CHOOSE k \in Kernels :
                 /\ kernelState[k] = "none"
                 /\ \A j \in Kernels : kernelState[j] = "none" => k <= j

\* start_kernel, lines 1340-1349, and _start_new_kernel, lines 1354-1355:
\* the current kernel, if there is one, is shut down.
StartNewKernel ==
    /\ skpc = "idle"
    /\ \E k \in Kernels : kernelState[k] = "none"
    /\ kernelState' = IF viewKernel = 0 THEN kernelState
                      ELSE [kernelState EXCEPT ![viewKernel] = "shutdown"]
    /\ skpc' = "new_kernel"
    /\ UNCHANGED <<allButKernel, viewKernel, kpc, kKernel>>

\* _start_new_kernel, line 1359: MyKernel(name) returns the new kernel.
NewKernelOk ==
    /\ skpc = "new_kernel"
    /\ kernelState' = [kernelState EXCEPT ![NextKernel] = "alive"]
    /\ viewKernel' = NextKernel
    /\ skpc' = "client"
    /\ UNCHANGED <<allButKernel, kpc, kKernel>>

\* _start_new_kernel, line 1359: MyKernel(name) raises (MyKernel.__init__,
\* lines 28-37: the kernel cannot be started or is not ready in time) and
\* the exception leaves _start_new_kernel.
NewKernelRaises ==
    /\ skpc = "new_kernel"
    /\ skpc' = "idle"
    /\ UNCHANGED <<allButKernel, viewKernel, kernelState, kpc, kKernel>>

\* _start_new_kernel, lines 1362-1402: the start-up snippets have run.
StartupDone ==
    /\ skpc = "client"
    /\ skpc' = "idle"
    /\ UNCHANGED <<allButKernel, viewKernel, kernelState, kpc, kKernel>>

\* run_function, lines 1425-1433: partial(FunctionRunnableKernel,
\* self._kernel) gives the worker the current kernel, whatever it is.
RunKernelFunction(w) ==
    /\ skpc = "idle"
    /\ kpc[w] = "none"
    /\ kKernel' = [kKernel EXCEPT ![w] = viewKernel]
    /\ kpc' = [kpc EXCEPT ![w] = "started"]
    /\ UNCHANGED <<allButKernel, viewKernel, kernelState, skpc>>

\* run(), line 362: MyClient(self.kernel); MyClient.__init__, line 27, reads
\* kernel._kernel, an AttributeError when the kernel is None.
KCreateClient(w) ==
    /\ kpc[w] = "started"
    /\ kpc' = [kpc EXCEPT ![w] = IF kKernel[w] = 0 THEN "raised"
                                 ELSE "client"]
    /\ UNCHANGED <<allButKernel, viewKernel, kernelState, skpc, kKernel>>

\* run(), lines 363-364: client.connect(); a kernel that was shut down
\* never answers and wait_for_ready raises its TimeoutError.
KConnect(w) ==
    /\ kpc[w] = "client"
    /\ kpc' = [kpc EXCEPT ![w] = IF kernelState[kKernel[w]] = "alive"
                                 THEN "connected" ELSE "raised"]
    /\ UNCHANGED <<allButKernel, viewKernel, kernelState, skpc, kKernel>>

\* run(), line 369: the snippet is submitted.
KExecute(w) ==
    /\ kpc[w] = "connected"
    /\ kpc' = [kpc EXCEPT ![w] = "running"]
    /\ UNCHANGED <<allButKernel, viewKernel, kernelState, skpc, kKernel>>

\* run(), lines 373-448: the session ends.
KFinish(w) ==
    /\ kpc[w] = "running"
    /\ kpc' = [kpc EXCEPT ![w] = "done"]
    /\ UNCHANGED <<allButKernel, viewKernel, kernelState, skpc, kKernel>>

KernelNext ==
    \/ StartNewKernel
    \/ NewKernelOk
    \/ NewKernelRaises
    \/ StartupDone
    \/ \E w \in Workers : RunKernelFunction(w)
    \/ \E w \in Workers : KCreateClient(w)
    \/ \E w \in Workers : KConnect(w)
    \/ \E w \in Workers : KExecute(w)
    \/ \E w \in Workers : KFinish(w)

KernelInit == Init /\ patterns = "None"

KernelSpec == KernelInit /\ [][KernelNext]_vars

\* ------------------------------------- MyKernel._decode_io_msg_content
allButDecode ==
    <<sessionVars, inputQueue, dialog, answers, dialogOwner, answerOwners,
      viewVars, kernelVars, snippetVars, commandVars, clientVars>>

\* utils.remove_ansi_escape: the ANSI escape sequences are taken out.
RECURSIVE remove_ansi_escape(_)
remove_ansi_escape(s) ==
    IF s = <<>> THEN <<>>
    ELSE IF Head(s) \in AnsiCodes THEN remove_ansi_escape(Tail(s))
    ELSE <<Head(s)>> \o remove_ansi_escape(Tail(s))

\* kernel.decode_traceback
decode_traceback(traceback) == remove_ansi_escape(join(traceback))

\* The contents a message can have: a data payload with any of the
\* representations, a stream name, a text, a traceback, in every combination.
DataChoices == { {}, {"text/plain"}, {"image/png"},
                 {"text/plain", "image/png"} }
NameChoices == {"stdout", "stderr"}
ContentKeys == {"data", "name", "text", "traceback"}

Content(keys, mimes, name) ==
    [k \in keys |->
        CASE k = "data" -> [r \in mimes |-> MimePayload(r)]
          [] k = "name" -> <<name>>
          [] k = "text" -> <<"2", "\n">>
          [] OTHER -> Traceback]

Contents ==
    { Content(keys, mimes, name) :
        keys \in SUBSET ContentKeys, mimes \in DataChoices,
        name \in NameChoices }

Returned(val) == [done |-> TRUE, raised |-> FALSE, val |-> val]
RaisedKeyError == [done |-> TRUE, raised |-> TRUE, val |-> <<"KeyError">>]

\* MyKernel._decode_io_msg_content, lines 123-133.
decode_io_msg_content(c) ==
    IF Has(c, "data")
    THEN IF Has(c.data, "text/plain") THEN Returned(c.data["text/plain"])
         ELSE RaisedKeyError
    ELSE IF Has(c, "name") /\ c.name = <<"stdout">>
    THEN IF Has(c, "text") THEN Returned(c.text) ELSE RaisedKeyError
    ELSE IF Has(c, "traceback") THEN Returned(decode_traceback(c.traceback))
    ELSE Returned(<<>>)

\* A call of _decode_io_msg_content.
DecodeCall ==
    /\ ~decoded.done
    /\ decoded' = decode_io_msg_content(content)
    /\ UNCHANGED <<allButDecode, content>>

DecodeNext == DecodeCall

DecodeInit ==
    /\ WorkerBuilt /\ patterns = "None"
    /\ KernelIdle
    /\ SnippetIdle
    /\ CommandIdle
    /\ ClientBuilt
    /\ content \in Contents
    /\ decoded = NotDecoded

DecodeSpec == DecodeInit /\ [][DecodeNext]_vars

\* ------------------------------------------------- MyKernel.run_snippet
allButSnippet ==
    <<sessionVars, inputQueue, dialog, answers, dialogOwner, answerOwners,
      viewVars, kernelVars, decodeVars, commandVars, clientVars>>

RECURSIVE lstrip(_)
lstrip(s) ==
    IF s = <<>> THEN s
    ELSE IF Head(s) \in Whitespace THEN lstrip(Tail(s))
    ELSE s

\* str.strip
strip(s) == lstrip(rstrip(s))

\* What print writes to stdout.
StreamTexts == { <<"a", "\n">>, <<"b", "\n">> }

RECURSIVE SeqsUpTo(_, _)
SeqsUpTo(S, n) ==
    IF n = 0 THEN { <<>> }
    ELSE LET shorter == SeqsUpTo(S, n - 1)
         IN shorter \cup { Append(q, x) : q \in shorter, x \in S }

StreamContent(t) == [name |-> <<"stdout">>, text |-> t]

\* The messages the kernel publishes on iopub for one execute request: busy,
\* the code, every stream text, idle.
RECURSIVE StreamContents(_)
StreamContents(texts) ==
    IF texts = <<>> THEN <<>>
    ELSE <<StreamContent(Head(texts))>> \o StreamContents(Tail(texts))

KernelPublishes(texts) ==
    <<[execution_state |-> "busy"], [code |-> <<"c">>]>>
    \o StreamContents(texts)
    \o <<[execution_state |-> "idle"]>>

\* _get_output, lines 108 and 116.
IsIdleContent(c) ==
    Has(c, "execution_state") /\ c.execution_state = "idle"

\* The content of an execute_reply: ok, an error with and without a
\* traceback, aborted.
ReplyContents ==
    { [status |-> "ok"],
      [status |-> "error", traceback |-> Traceback],
      [status |-> "error"],
      [status |-> "aborted"] }

NoTracebackText == <<"An error occurred, no traceback was provided.">>

\* The else branch left out: a reply without an error keeps the value.
error_of_reply_NoClear(c, old) ==
    IF c.status = "error"
    THEN IF Has(c, "traceback") THEN Str(decode_traceback(c.traceback))
         ELSE Str(NoTracebackText)
    ELSE old

\* MyKernel.run_snippet, lines 75-81, and MyClient.run_snippet, lines
\* 192-198: the value _error gets for the content of a reply; old is the
\* value it had.
error_of_reply(c, old) ==
    IF c.status = "error"
    THEN IF Has(c, "traceback") THEN Str(decode_traceback(c.traceback))
         ELSE Str(NoTracebackText)
    ELSE None

\* run_snippet, line 66, flush(), lines 89-94: the messages of earlier
\* requests are read until the channel is empty.
SnFlush ==
    /\ snpc = "flush"
    /\ iopubQ' = <<>>
    /\ snpc' = "execute"
    /\ UNCHANGED <<allButSnippet, published, io_msg_content,
                   last_io_msg_content, output, kernelError, kernelReply,
                   errorBefore>>

\* run_snippet, line 68: the snippet is submitted and the kernel runs it.
SnExecute ==
    /\ snpc = "execute"
    /\ iopubQ' = iopubQ \o KernelPublishes(published)
    /\ snpc' = "response"
    /\ UNCHANGED <<allButSnippet, published, io_msg_content,
                   last_io_msg_content, output, kernelError, kernelReply,
                   errorBefore>>

\* run_snippet, lines 71-82, _get_response: the reply on the shell channel.
SnResponse ==
    /\ snpc = "response"
    /\ \E c \in ReplyContents :
          /\ kernelReply' = c
          /\ kernelError' = error_of_reply(c, kernelError)
    /\ snpc' = "first"
    /\ UNCHANGED <<allButSnippet, iopubQ, published, io_msg_content,
                   last_io_msg_content, output, errorBefore>>

\* _get_output, lines 106-109: the first iopub message.
SnFirstRead ==
    /\ snpc = "first"
    /\ iopubQ # <<>>
    /\ io_msg_content' = Head(iopubQ)
    /\ iopubQ' = Tail(iopubQ)
    /\ IF IsIdleContent(Head(iopubQ))
       THEN output' = strip(<<>>) /\ snpc' = "done"
       ELSE output' = output /\ snpc' = "loop"
    /\ UNCHANGED <<allButSnippet, published, last_io_msg_content,
                   kernelError, kernelReply, errorBefore>>

\* _get_output, lines 111-121, and run_snippet, line 87: the next iopub
\* message; at the idle status or at queue.Empty the content read before
\* is decoded and returned.
SnLoopRead ==
    /\ snpc = "loop"
    /\ last_io_msg_content' = io_msg_content
    /\ IF iopubQ = <<>>
       THEN UNCHANGED <<iopubQ, io_msg_content>>
       ELSE /\ io_msg_content' = Head(iopubQ)
            /\ iopubQ' = Tail(iopubQ)
    /\ IF iopubQ = <<>> \/ IsIdleContent(Head(iopubQ))
       THEN LET r == decode_io_msg_content(io_msg_content) IN
               IF r.raised THEN output' = output /\ snpc' = "raised"
               ELSE output' = strip(r.val) /\ snpc' = "done"
       ELSE output' = output /\ snpc' = "loop"
    /\ UNCHANGED <<allButSnippet, published, kernelError, kernelReply,
                   errorBefore>>

SnippetNext ==
    \/ SnFlush
    \/ SnExecute
    \/ SnResponse
    \/ SnFirstRead
    \/ SnLoopRead

\* The values an earlier call of run_snippet can have left in _error.
EarlierErrors ==
    {None, Str(decode_traceback(Traceback)), Str(NoTracebackText)}

\* A MyKernel about to run a snippet that prints the texts of published;
\* the iopub channel may still hold output of an earlier request, and
\* _error the outcome of an earlier call.
SnippetInit ==
    /\ WorkerBuilt /\ patterns = "None"
    /\ KernelIdle
    /\ DecodeIdle
    /\ CommandIdle
    /\ ClientBuilt
    /\ published \in SeqsUpTo(StreamTexts, MaxStreams)
    /\ iopubQ \in { <<>>, <<StreamContent(<<"o", "\n">>)>> }
    /\ snpc = "flush"
    /\ io_msg_content = NoContent
    /\ last_io_msg_content = NoContent
    /\ output = <<>>
    /\ kernelError \in EarlierErrors
    /\ kernelReply = NoContent
    /\ errorBefore = kernelError

SnippetSpec == SnippetInit /\ [][SnippetNext]_vars

\* Another client is attached to the kernel (the MyClient of a worker, of
\* View._start_new_kernel): what the kernel publishes for its requests comes
\* to the iopub channel of the MyKernel as well.  The kernel handles one
\* request at a time, so these messages come before the busy status of the
\* snippet (while flush() runs or after it has returned) or after its idle
\* status, where nobody reads them.
OtherClientPublishes ==
    /\ snpc \in {"flush", "execute"}
    /\ Len(iopubQ) < MaxForeign
    /\ \E c \in { StreamContent(<<"o", "\n">>),
                   [execution_state |-> "idle"] } :
          iopubQ' = Append(iopubQ, c)
    /\ UNCHANGED <<allButSnippet, published, snpc, io_msg_content,
                   last_io_msg_content, output, kernelError, kernelReply,
                   errorBefore>>

SharedKernelNext ==
    \/ SnippetNext
    \/ OtherClientPublishes

SharedKernelSpec == SnippetInit /\ [][SharedKernelNext]_vars

\* ------------------------------------------------------ Command.execute
allButCommand ==
    <<sessionVars, inputQueue, dialog, answers, dialogOwner, answerOwners,
      viewVars, kernelVars, decodeVars, snippetVars, clientVars>>

\* The names and values of environment variables.
EnvKeys == {"A", "B"}
EnvVals == {"1", "2"}

\* A mapping of names to values, as a set of <<name, value>> pairs.
Envs ==
    { e \in SUBSET (EnvKeys \X EnvVals) :
         \A p, q \in e : p[1] = q[1] => p = q }

\* os.environ.update(self._env), lines 132 and 211: the entries of new
\* replace those of the same name.
update(env, new) ==
    { p \in env : \A q \in new : q[1] # p[1] } \cup new

\* ScriptCommand.execute, lines 126-127: get_command_line raises
\* CommandError for a path that does not exist, before anything is saved.
ScriptNotFound ==
    /\ cmdpc = "created"
    /\ cmdKind = "ScriptCommand"
    /\ environBefore' = environ
    /\ cmdpc' = "raised"
    /\ UNCHANGED <<allButCommand, environ, saved_env, cmdEnv, cmdKind>>

\* ScriptCommand.execute, lines 128-132, SnippetCommand.execute, lines
\* 207-211: a command with environment entries saves a copy of os.environ
\* and updates os.environ with its entries.
ExecuteSave ==
    /\ cmdpc = "created"
    /\ environBefore' = environ
    /\ IF cmdEnv # {}
       THEN /\ saved_env' = <<environ>>
            /\ environ' = update(environ, cmdEnv)
       ELSE UNCHANGED <<saved_env, environ>>
    /\ cmdpc' = "saved"
    /\ UNCHANGED <<allButCommand, cmdEnv, cmdKind>>

\* if saved_env is not None: os.environ = saved_env
Restored == IF saved_env # <<>> THEN saved_env[1] ELSE environ

\* ScriptCommand.execute, lines 134-142: the script is started; whether
\* start() returns or raises, the finally clause restores os.environ.
ScriptStart ==
    /\ cmdpc = "saved"
    /\ cmdKind = "ScriptCommand"
    /\ environ' = Restored
    /\ cmdpc' \in {"returned", "raised"}
    /\ UNCHANGED <<allButCommand, saved_env, cmdEnv, cmdKind, environBefore>>

\* SnippetCommand.execute, lines 213-219: the snippet has run and
\* os.environ is restored.
SnippetRun ==
    /\ cmdpc = "saved"
    /\ cmdKind = "SnippetCommand"
    /\ environ' = Restored
    /\ cmdpc' = "returned"
    /\ UNCHANGED <<allButCommand, saved_env, cmdEnv, cmdKind, environBefore>>

\* SnippetCommand.execute, lines 213-215: MyKernel() or run_snippet raises
\* (the kernel does not start, queue.Empty of the first iopub read, a
\* KeyError of _decode_io_msg_content); the exception leaves execute.
SnippetRaises ==
    /\ cmdpc = "saved"
    /\ cmdKind = "SnippetCommand"
    /\ cmdpc' = "raised"
    /\ UNCHANGED <<allButCommand, environ, saved_env, cmdEnv, cmdKind,
                   environBefore>>

CommandNext ==
    \/ ScriptNotFound
    \/ ExecuteSave
    \/ ScriptStart
    \/ SnippetRun
    \/ SnippetRaises

\* A command of either class, with or without environment entries, about
\* to be executed in a process with some environment.
CommandInit ==
    /\ WorkerBuilt /\ patterns = "None"
    /\ KernelIdle
    /\ DecodeIdle
    /\ SnippetIdle
    /\ ClientBuilt
    /\ environ \in Envs
    /\ saved_env = <<>>
    /\ cmdEnv \in Envs
    /\ cmdKind \in {"ScriptCommand", "SnippetCommand"}
    /\ cmdpc = "created"
    /\ environBefore = {}

CommandSpec == CommandInit /\ [][CommandNext]_vars

\* ------------------------------------- MyClient in View._start_new_kernel
allButClient ==
    <<sessionVars, inputQueue, dialog, answers, dialogOwner, answerOwners,
      viewVars, kernelVars, decodeVars, snippetVars, commandVars>>

Request(id, type) == [id |-> id, msg_type |-> type]

\* The status messages the kernel publishes around every request it handles.
Busy(id) == IopubMsg(id, "status", [execution_state |-> "busy"])
Idle(id) == IopubMsg(id, "status", [execution_state |-> "idle"])

\* What a snippet makes the kernel publish between execute_input and idle:
\* nothing, a line printed, or a message of a type run_snippet does not know.
ExecuteBodies(id) ==
    { <<>>,
      <<IopubMsg(id, "stream", StreamContent(<<"s", "\n">>))>>,
      <<IopubMsg(id, "clear_output", [wait |-> <<"False">>])>> }

\* The replies to the snippets of _start_new_kernel.
ClientReplies ==
    { [status |-> "ok"], [status |-> "error", traceback |-> Traceback] }

\* The kernel handles the next request: it publishes busy, the messages of
\* the request and idle on iopub and sends the reply on the shell channel.
\* The status messages of a kernel_info_request reach the client only when
\* its iopub subscription is already established.
CKernelHandles ==
    /\ cKernelAlive
    /\ cChannels = "open"
    /\ cRequests # <<>>
    /\ LET r == Head(cRequests) IN
          /\ cRequests' = Tail(cRequests)
          /\ IF r.msg_type = "kernel_info_request"
             THEN /\ \E seen \in BOOLEAN :
                        cIopub' = cIopub \o
                           (IF seen THEN <<Busy(r.id), Idle(r.id)>> ELSE <<>>)
                  /\ cShell' = Append(cShell,
                        IopubMsg(r.id, "kernel_info_reply", [status |-> "ok"]))
             ELSE /\ \E body \in ExecuteBodies(r.id) :
                        cIopub' = cIopub
                           \o <<Busy(r.id),
                                IopubMsg(r.id, "execute_input",
                                         [code |-> <<"c">>])>>
                           \o body \o <<Idle(r.id)>>
                  /\ \E c \in ClientReplies :
                        cShell' = Append(cShell,
                                         IopubMsg(r.id, "execute_reply", c))
    /\ UNCHANGED <<allButClient, cpc, cChannels, cKernelAlive, cSent, cCalls,
                   cMsgId, cOutput, cError, cReplied, cEndedBy, cTextOf>>

\* MyKernel.shutdown, called by the owner of the kernel (View.closeEvent,
\* the next _start_new_kernel, MyKernel.__del__), never by the client.
CKernelShutdown ==
    /\ cKernelAlive
    /\ cpc # "new"
    /\ cKernelAlive' = FALSE
    /\ UNCHANGED <<allButClient, cpc, cChannels, cRequests, cIopub, cShell,
                   cSent, cCalls, cMsgId, cOutput, cError, cReplied,
                   cEndedBy, cTextOf>>

\* __enter__, connect, start_channels, line 47, and wait_for_ready, line
\* 62: the channels are opened and a kernel_info_request is sent.
CConnect ==
    /\ cpc = "new"
    /\ cChannels' = "open"
    /\ cSent' = cSent + 1
    /\ cRequests' = Append(cRequests, Request(cSent', "kernel_info_request"))
    /\ cpc' = "wait_for_ready"
    /\ UNCHANGED <<allButClient, cKernelAlive, cIopub, cShell, cCalls, cMsgId,
                   cOutput, cError, cReplied, cEndedBy, cTextOf>>

\* wait_for_ready, lines 64-69: a shell message is read; the
\* kernel_info_reply ends the wait.
CReady ==
    /\ cpc = "wait_for_ready"
    /\ cShell # <<>>
    /\ cShell' = Tail(cShell)
    /\ cReplied' = cReplied \cup {Head(cShell).parent_header.msg_id}
    /\ cpc' = IF Head(cShell).msg_type = "kernel_info_reply"
              THEN "connected" ELSE cpc
    /\ UNCHANGED <<allButClient, cChannels, cKernelAlive, cRequests, cIopub,
                   cSent, cCalls, cMsgId, cOutput, cError, cEndedBy, cTextOf>>

\* wait_for_ready, lines 73-76: no kernel_info_reply within the startup
\* timeout.  TimeoutError is no RuntimeError, so start_channels, lines
\* 50-52, leaves the channels open; __enter__ raises and the with block is
\* not entered.
CReadyTimeout ==
    /\ cpc = "wait_for_ready"
    /\ cShell = <<>>
    /\ cpc' = "raised"
    /\ UNCHANGED <<allButClient, cChannels, cKernelAlive, cRequests, cIopub,
                   cShell, cSent, cCalls, cMsgId, cOutput, cError, cReplied,
                   cEndedBy, cTextOf>>

\* get_kernel_info, line 84: a second kernel_info_request.
CKernelInfo ==
    /\ cpc = "connected"
    /\ cSent' = cSent + 1
    /\ cRequests' = Append(cRequests, Request(cSent', "kernel_info_request"))
    /\ cpc' = "get_kernel_info"
    /\ UNCHANGED <<allButClient, cChannels, cKernelAlive, cIopub, cShell,
                   cCalls, cMsgId, cOutput, cError, cReplied, cEndedBy,
                   cTextOf>>

\* get_kernel_info, lines 88-92: get_shell_msg() without a timeout.
CKernelInfoReply ==
    /\ cpc = "get_kernel_info"
    /\ cShell # <<>>
    /\ cShell' = Tail(cShell)
    /\ cReplied' = cReplied \cup {Head(cShell).parent_header.msg_id}
    /\ cpc' = "with"
    /\ UNCHANGED <<allButClient, cChannels, cKernelAlive, cRequests, cIopub,
                   cSent, cCalls, cMsgId, cOutput, cError, cEndedBy, cTextOf>>

\* run_snippet, lines 131-138: the next snippet of _start_new_kernel (lines
\* 1369, 1375, 1394) is submitted.
CExecute ==
    /\ cpc = "with"
    /\ cCalls < MaxSnippets
    /\ cCalls' = cCalls + 1
    /\ cSent' = cSent + 1
    /\ cMsgId' = cSent'
    /\ cRequests' = Append(cRequests, Request(cSent', "execute_request"))
    /\ cOutput' = <<>>
    /\ cEndedBy' = 0
    /\ cTextOf' = {}
    /\ cpc' = "iopub"
    /\ UNCHANGED <<allButClient, cChannels, cKernelAlive, cIopub, cShell,
                   cError, cReplied>>

\* The message types run_snippet has a branch for, lines 153-172.
ClientKnownTypes ==
    {"status", "stream", "display_data", "execute_input", "error",
     "execute_result"}

\* run_snippet, lines 140-178: one turn of the read loop with a message on
\* the iopub channel.  Any idle status ends the loop, the text of any stream
\* message is collected, a message of an unknown type raises RuntimeError,
\* which leaves the with block through __exit__.  (A turn that times out,
\* lines 177-178, changes nothing.)
CIopubRead ==
    /\ cpc = "iopub"
    /\ cIopub # <<>>
    /\ LET m == Head(cIopub) IN
          /\ cIopub' = Tail(cIopub)
          /\ IF m.msg_type = "stream" /\ Has(m.content, "text")
             THEN /\ cOutput' = Append(cOutput, rstrip(m.content.text))
                  /\ cTextOf' = cTextOf \cup {m.parent_header.msg_id}
             ELSE UNCHANGED <<cOutput, cTextOf>>
          /\ IF IsIdle(m)
             THEN /\ cEndedBy' = m.parent_header.msg_id
                  /\ cpc' = "shell"
                  /\ UNCHANGED cChannels
             ELSE IF m.msg_type \in ClientKnownTypes
             THEN UNCHANGED <<cEndedBy, cpc, cChannels>>
             ELSE /\ cpc' = "raised"
                  /\ cChannels' = "closed"
                  /\ UNCHANGED cEndedBy
    /\ UNCHANGED <<allButClient, cKernelAlive, cRequests, cShell, cSent,
                   cCalls, cMsgId, cError, cReplied>>

\* run_snippet, lines 183-200: a message is on the shell channel within
\* the second; _error is set from it and the output is returned.
CShellRead ==
    /\ cpc = "shell"
    /\ cShell # <<>>
    /\ cShell' = Tail(cShell)
    /\ cReplied' = cReplied \cup {Head(cShell).parent_header.msg_id}
    /\ cError' = error_of_reply(Head(cShell).content, cError)
    /\ cpc' = "with"
    /\ UNCHANGED <<allButClient, cChannels, cKernelAlive, cRequests, cIopub,
                   cSent, cCalls, cMsgId, cOutput, cEndedBy, cTextOf>>

\* The timeout of the reply swallowed: run_snippet returns without a reply.
CShellEmpty_Returns ==
    /\ cpc = "shell"
    /\ cShell = <<>>
    /\ cpc' = "with"
    /\ UNCHANGED <<allButClient, cChannels, cKernelAlive, cRequests, cIopub,
                   cShell, cSent, cCalls, cMsgId, cOutput, cError, cReplied,
                   cEndedBy, cTextOf>>

\* run_snippet, line 183: no message on the shell channel within the
\* second; queue.Empty leaves run_snippet and the with block, whose
\* __exit__ disconnects.
CShellEmpty ==
    /\ cpc = "shell"
    /\ cShell = <<>>
    /\ cpc' = "raised"
    /\ cChannels' = "closed"
    /\ UNCHANGED <<allButClient, cKernelAlive, cRequests, cIopub, cShell,
                   cSent, cCalls, cMsgId, cOutput, cError, cReplied,
                   cEndedBy, cTextOf>>

\* disconnect that shuts the kernel down as well, as MyKernel.__del__ does.
CExit_ShutsDown ==
    /\ cpc = "with"
    /\ cCalls >= 1
    /\ cChannels' = "closed"
    /\ cKernelAlive' = FALSE
    /\ cpc' = "closed"
    /\ UNCHANGED <<allButClient, cRequests, cIopub, cShell, cSent, cCalls,
                   cMsgId, cOutput, cError, cReplied, cEndedBy, cTextOf>>

\* __exit__, lines 43-44, disconnect, lines 34-37, stop_channels: the end
\* of the with block, after the first snippet or a later one (the second
\* and the third are run only when PYTHONSTARTUP and cmd_log are set).
CExit ==
    /\ cpc = "with"
    /\ cCalls >= 1
    /\ cChannels' = "closed"
    /\ cpc' = "closed"
    /\ UNCHANGED <<allButClient, cKernelAlive, cRequests, cIopub, cShell,
                   cSent, cCalls, cMsgId, cOutput, cError, cReplied,
                   cEndedBy, cTextOf>>

\* __del__, lines 202-204: the client is destroyed.
CDel ==
    /\ cpc \in {"closed", "raised"}
    /\ cChannels' = "closed"
    /\ cpc' = "deleted"
    /\ UNCHANGED <<allButClient, cKernelAlive, cRequests, cIopub, cShell,
                   cSent, cCalls, cMsgId, cOutput, cError, cReplied,
                   cEndedBy, cTextOf>>

ClientNext ==
    \/ CKernelHandles
    \/ CKernelShutdown
    \/ CConnect
    \/ CReady
    \/ CReadyTimeout
    \/ CKernelInfo
    \/ CKernelInfoReply
    \/ CExecute
    \/ CIopubRead
    \/ CShellRead
    \/ CShellEmpty
    \/ CExit
    \/ CDel

ClientInit == Init /\ patterns = "None"

ClientSpec == ClientInit /\ [][ClientNext]_vars

\* ------------------------------------------------------------- properties
LastEvent == events[Len(events)]

IsInputEvent(e) == e.sig = "input"
IsFinishedEvent(e) == e.sig = "finished"
IsOperatorAnswer(x) == x # ""

Count(seq, Test(_)) == Len(SelectSeq(seq, Test))

\* C1: the notifications caused by iopub messages are emitted in the order
\* of those messages, and no iopub message read after the first idle status
\* of the own request causes a notification.
C1_OrderedAndStopsAtIdle ==
    /\ \A i, j \in DOMAIN events :
          (i < j /\ events[i].src > 0 /\ events[j].src > 0)
             => events[i].src <= events[j].src
    /\ \A i \in DOMAIN events : idleAt > 0 => events[i].src <= idleAt

\* C2: the step that reads an iopub message whose parent msg_id is not the
\* one execute() returned emits nothing and leaves the worker where it was,
\* whatever the type and the content of the message.
C2_ForeignMessageSkipped ==
    [][ (nMsgs' = nMsgs + 1 /\ last'.parent_header.msg_id # msg_id)
           => (events' = events /\ pc' = pc /\ idleAt' = idleAt
               /\ reply' = reply) ]_vars

\* An idle status of another request has been read and the worker is still
\* in the read loop.
C2_Witness ==
    /\ pc = "iopub"
    /\ nMsgs > 0
    /\ "parent_header" \in DOMAIN last
    /\ last.parent_header.msg_id # msg_id
    /\ last.msg_type = "status"

\* C3: the finished notification carries success = False when the collected
\* execute_reply has status error, and success = True for any other reply.
C3_FinishedCarriesReplyStatus ==
    (pc = "done" /\ reply \notin {"none", "timeout"})
       => LastEvent = Finished(IF reply = "error" THEN "False" ELSE "True")

\* C4: after the shell read timed out the session has emitted exactly one
\* "No result received" warning, reads no channel any more and ends with a
\* finished notification carrying success = False.
C4_ReplyTimeoutEndsInFailure ==
    reply = "timeout"
       => /\ pc \in {"finish", "done"}
          /\ Cardinality({i \in DOMAIN events : events[i].val = NoResultText})
                = 1
          /\ pc = "done" => LastEvent = Finished("False")

\* C5: after an input_request with a prompt the worker has emitted the input
\* notification with that prompt and reads no channel while it waits; when
\* it is back in the loop it has called client.input once per prompt, with
\* the answers of the operator in their order.
C5_InputRoundTrip ==
    LET sent == SelectSeq(clientInputs, IsOperatorAnswer)
        prompted == Count(events, IsInputEvent)
    IN  /\ pc = "wait_answer"
           => /\ last.msg_type = "input_request"
              /\ LastEvent = Event("input", last.content.prompt, 0)
              /\ Len(sent) = prompted - 1
        /\ pc # "wait_answer" => Len(sent) = prompted
        /\ Len(sent) <= Len(answers)
        /\ sent = SubSeq(answers, 1, Len(sent))

\* The operator's answer has been sent and the worker reads iopub again.
C5_Witness ==
    /\ pc = "iopub"
    /\ Count(events, IsInputEvent) = 1
    /\ clientInputs = <<"Y">>

\* C6: a step that begins or continues a run of iopub timeouts emits no
\* notification, collects no reply and keeps the worker in the read loop.
C6_TimeoutsKeepStreaming ==
    [][ timeouts' >= 1
           => (events' = events /\ reply' = reply
               /\ pc' \in {"iopub", "stdin"}) ]_vars

\* The iopub read and the stdin poll have timed out at least twice in a row
\* and the worker is about to read iopub again.
C6_Witness ==
    /\ pc = "iopub"
    /\ timeouts >= 2

\* C7: once a channel read has raised an exception other than queue.Empty the
\* session has emitted the exception, is out of the read loop and ends with a
\* finished notification carrying success = False.
C7_ExceptionForcesDone ==
    nExc > 0
       => /\ \E i \in DOMAIN events : events[i].val = ExcText
          /\ pc \in {"finish", "done"}
          /\ pc = "done" => LastEvent = Finished("False")

\* C8: a session during which the kernel was interrupted ends with a
\* finished notification carrying success = False.
C8_InterruptEndsInFailure ==
    (kernel = "interrupted" /\ pc = "done") => LastEvent = Finished("False")

\* C9: when the kernel is dead while the worker is in the read loop, the
\* worker eventually leaves the loop: it does not poll the channels forever.
C9_DeadKernelEndsSession ==
    (kernel = "dead" /\ pc \in {"iopub", "stdin"})
       ~> (pc \in {"finish", "done", "raised"})

\* C10: when run() has returned, the worker has emitted a message and
\* exactly one finished notification.
C10_EveryReturnNotifies ==
    pc \in {"done", "returned"}
       => /\ \E i \in DOMAIN events : events[i].sig \in {"data", "error"}
          /\ Count(events, IsFinishedEvent) = 1

\* C11: no exception leaves run().
C11_NoExceptionEscapes == pc # "raised"

\* C12: when connect() has failed on the timeout of wait_for_ready, the
\* channels of the client are stopped.
C12_FailedConnectStopsChannels ==
    (pc = "raised" /\ msg_id = 0) => channels # "open"

C17_InputOnlyWhilePending ==
    [][ clientInputs' # clientInputs
           => \/ stdinPending
              \/ (nStdin' = nStdin + 1 /\ last'.msg_type = "input_request")
      ]_vars

\* C18: the finished notification is the last notification of the worker.
C18_NothingAfterFinished ==
    \A i \in DOMAIN events : events[i].sig = "finished" => i = Len(events)

\* The session has ended after emitting output of its request.
C18_Witness ==
    /\ pc = "done"
    /\ LastEvent = Finished("True")
    /\ \E i \in DOMAIN events : events[i].src > 0

\* ------------------------------------------------------ C13 .. C15, C19, C20
\* The signals of worker w that wait in the event loop, in order.
RECURSIVE SigsOf(_, _)
SigsOf(q, w) ==
    IF q = <<>> THEN <<>>
    ELSE (IF Head(q).w = w THEN <<Head(q).sig>> ELSE <<>>)
         \o SigsOf(Tail(q), w)

InSeq(seq, x) == \E i \in DOMAIN seq : seq[i] = x

UiQuiet == uipc = UiIdle /\ sigQueue = <<>>

\* The prompt notifications the slots of the View have received.
PromptsShown ==
    LET n[i \in 0..Cardinality(Workers)] ==
            IF i = 0 THEN 0
            ELSE n[i - 1] + Len(SelectSeq(delivered[i], IsInputSignal))
    IN n[Cardinality(Workers)]

\* The prompt notifications the workers have emitted.
PromptsEmitted ==
    LET n[i \in 0..Cardinality(Workers)] ==
            IF i = 0 THEN 0
            ELSE n[i - 1] + Len(SelectSeq(emitted[i], IsInputSignal))
    IN n[Cardinality(Workers)]

\* C13: the UI thread never performs a blocking channel receive, whatever
\* operation of the View it executes, starting or restarting the kernel
\* included.
C13_UiNeverReceives == uipc.op # "_start_new_kernel"

\* C14: the answer queue is a single slot: it never holds more than one
\* answer, it holds an answer only while a worker is blocked on its prompt,
\* and once the UI has nothing left to do every prompt notification it
\* received has led to exactly one put.
C14_SingleSlotQueue ==
    /\ Len(inputQueue) <= 1
    /\ inputQueue # <<>> => \E w \in Workers : wpc[w] = "wait_answer"
    /\ (UiQuiet /\ ~dialog) => Len(answers) = PromptsShown

\* C15: with two workers prompting concurrently, the answer a worker takes
\* is the one the operator gave to that worker's own prompt, and once every
\* prompt has been answered and the queue is empty no worker is blocked.
C15_OwnAnswerEach ==
    /\ \A w \in Workers : got[w] # 0 => answerOwners[got[w]] = w
    /\ (Len(answers) = PromptsEmitted /\ inputQueue = <<>>)
          => \A w \in Workers : wpc[w] # "wait_answer"

\* C19: what the slots of the View have received of a worker, followed by
\* what still waits in the event loop, is what the worker has emitted: no
\* notification is lost and the order is the order of emission.
C19_NothingLostInOrder ==
    \A w \in Workers : delivered[w] \o SigsOf(sigQueue, w) = emitted[w]

\* C20: once the UI has nothing left to do, a worker that has emitted
\* finished or has returned from run() is no longer in View._gui_apps.
C20_EndedWorkerRemoved ==
    UiQuiet => \A w \in Workers :
                  wpc[w] \in {"done", "returned"} => ~InSeq(gui_apps, w)

\* ---------------------------------------------------------------- C21, C22
\* C21: no session is started while View._kernel is None, a session runs on
\* the kernel that is current when it is started, and no worker creates a
\* client on, or submits code to, a kernel that has been shut down.
C21_NoSessionOnDeadKernel ==
    [][ \A w \in Workers :
          /\ (kpc[w] = "none" /\ kpc'[w] = "started")
                => (viewKernel # 0 /\ kKernel'[w] = viewKernel)
          /\ (kpc[w] = "started" /\ kpc'[w] = "client")
                => kernelState[kKernel[w]] = "alive"
          /\ (kpc[w] = "connected" /\ kpc'[w] = "running")
                => kernelState[kKernel[w]] = "alive" ]_vars

\* C22: whenever the UI thread is not inside _start_new_kernel, View._kernel
\* is None or a kernel that has not been shut down.
C22_CurrentKernelIsLive ==
    skpc = "idle" => (viewKernel = 0 \/ kernelState[viewKernel] = "alive")

\* ---------------------------------------------------------------- C26, C27
\* The decision order of the classification: the plain text of the data
\* payload, else the text of stdout, else the traceback, joined and without
\* ANSI escapes, else the image of the data payload, else the empty result.
Classified(c) ==
    IF Has(c, "data") /\ Has(c.data, "text/plain") THEN c.data["text/plain"]
    ELSE IF Has(c, "name") /\ c.name = <<"stdout">> /\ Has(c, "text")
    THEN c.text
    ELSE IF Has(c, "traceback") THEN decode_traceback(c.traceback)
    ELSE IF Has(c, "data") /\ Has(c.data, "image/png") THEN c.data["image/png"]
    ELSE <<>>

\* C26: _decode_io_msg_content never raises and returns what the decision
\* order gives, for every combination of keys in the content.
C26_TotalDecisionOrder ==
    decoded.done => (~decoded.raised /\ decoded.val = Classified(content))

\* C27: a content with a traceback is classified as the error, whatever
\* other keys it has.
C27_TracebackIsError ==
    (decoded.done /\ Has(content, "traceback"))
        => (~decoded.raised /\ decoded.val = decode_traceback(content.traceback))

\* --------------------------------------------------------------------- C29
\* The texts occur in s one after the other, stripped of the white space
\* around them.
RECURSIVE AppearInOrder(_, _)
AppearInOrder(texts, s) ==
    IF texts = <<>> THEN TRUE
    ELSE LET t == strip(Head(texts)) IN
         \E i \in 0..(Len(s) - Len(t)) :
            /\ SubSeq(s, i + 1, i + Len(t)) = t
            /\ AppearInOrder(Tail(texts), SubSeq(s, i + Len(t) + 1, Len(s)))

\* C29: run_snippet returns the text of every stream message the kernel
\* published for the snippet, in order.
C29_CompleteOutput ==
    snpc \in {"done", "raised"}
        => (snpc = "done" /\ AppearInOrder(published, output))

\* ------------------------------------------------------ C24, C25, C28, C30
\* The message types run() knows, and the key each of them is read for.
KnownTypes == {"stream", "status", "display_data", "execute_input", "error"}

Malformed(m) ==
    \/ m.msg_type = "stream" /\ ~Has(m.content, "text")
    \/ m.msg_type = "display_data" /\ ~Has(m.content, "data")
    \/ m.msg_type = "error" /\ ~Has(m.content, "traceback")

IsTracebackEvent(e) == e.val = from_ansi(join(Traceback))

\* C24: the step that reads a message of the own request with an unknown
\* type, or with a known type and without the key that type is read for,
\* emits one error notification and leaves the worker in the read loop.
C24_MalformedSurfaced ==
    [][ (/\ nMsgs' = nMsgs + 1
         /\ last'.parent_header.msg_id = msg_id
         /\ (last'.msg_type \notin KnownTypes \/ Malformed(last')))
           => /\ Len(events') = Len(events) + 1
              /\ LastEvent'.sig = "error"
              /\ pc' = "iopub" ]_vars

\* C25: a session whose code failed, with the traceback published on iopub
\* and the reply of status error, has emitted the traceback exactly once
\* when it ends.
C25_OneTracebackEvent ==
    (/\ pc = "done"
     /\ reply = "error"
     /\ \E i \in DOMAIN events :
           events[i].src > 0 /\ IsTracebackEvent(events[i]))
       => Count(events, IsTracebackEvent) = 1

\* C28: the step that reads a display_data message of the own request whose
\* data has at least one of the three representations emits exactly one
\* notification: html when text/html is there, else png when image/png is
\* there, and the plain text only when neither is.
C28_RichestRepresentation ==
    [][ (/\ nMsgs' = nMsgs + 1
         /\ last'.parent_header.msg_id = msg_id
         /\ last'.msg_type = "display_data"
         /\ Has(last'.content, "data"))
           => LET d == last'.content.data IN
              /\ Len(events') = Len(events) + 1
              /\ LastEvent'.src = nMsgs'
              /\ LastEvent'.sig = "html" <=> Has(d, "text/html")
              /\ LastEvent'.sig = "png"
                    <=> (~Has(d, "text/html") /\ Has(d, "image/png"))
              /\ LastEvent'.sig = "data"
                    <=> (~Has(d, "text/html") /\ ~Has(d, "image/png"))
              /\ LastEvent'.val =
                    (IF Has(d, "text/html") THEN rstrip(Html)
                     ELSE IF Has(d, "image/png") THEN Png
                     ELSE rstrip(Plain)) ]_vars

\* A display_data message with the three representations has been read and
\* the html notification is the last one emitted.
C28_Witness ==
    /\ pc = "iopub"
    /\ nMsgs > 0
    /\ last.msg_type = "display_data"
    /\ Has(last.content, "data")
    /\ DOMAIN last.content.data = {"text/html", "image/png", "text/plain"}
    /\ last.parent_header.msg_id = msg_id
    /\ LastEvent = Event("html", rstrip(Html), nMsgs)

C37_ReplyCollectionEndsLoop ==
    [][pc = "shell" => pc' \in {"shell", "finish"}]_vars

\* C32: every output notification a slot of the View handles carries the
\* worker that emitted it.
C32_OutputNamesItsWorker ==
    [][\A w \in Workers :
          (/\ Len(delivered'[w]) > Len(delivered[w])
           /\ Head(sigQueue).sig \in {"data", "html", "png"})
             => SlotArguments(Head(sigQueue)).runnable = w]_vars

\* C35: what MyKernel.run_snippet returns on a kernel another client is
\* attached to is output of the snippet alone: it holds no text the kernel
\* published for the other client, and when the snippet printed something
\* the call returns, with the text the snippet printed last.
C35_OnlySnippetOutput ==
    snpc \in {"done", "raised"}
       => /\ \A i \in DOMAIN output : output[i] # "o"
          /\ published # <<>>
                => (snpc = "done" /\ output = strip(published[Len(published)]))

C38_EnvironRestored ==
    (cmdpc \in {"returned", "raised"} /\ cmdEnv # {})
       => environ = environBefore

\* C31: whenever run_snippet submits a snippet on the client of
\* _start_new_kernel, the client has read the reply to every request it
\* submitted before.
C31_NoExecuteBeforeReply ==
    [][cCalls' > cCalls => \A id \in 1..cSent : id \in cReplied]_vars

\* The second snippet has been submitted, after the reply to the first was
\* read.
C31_Witness ==
    /\ cCalls = 2
    /\ cpc = "iopub"
    /\ cMsgId - 1 \in cReplied

\* C33: the kernel stops running only in steps in which the client does
\* nothing: connecting, running a snippet, leaving the with block and
\* destroying the client leave the kernel as it is.
C33_ClientLeavesKernelAlone ==
    [][cKernelAlive' # cKernelAlive
          => /\ cpc' = cpc
             /\ cChannels' = cChannels
             /\ cSent' = cSent
             /\ cIopub' = cIopub
             /\ cShell' = cShell]_vars

\* The client has run both snippets, has left the with block and was
\* destroyed; the kernel runs.
C33_Witness ==
    /\ cpc = "deleted"
    /\ cCalls = 2
    /\ cChannels = "closed"
    /\ cKernelAlive

\* C34: the read loop of run_snippet is ended by the idle status of its own
\* execute request, and the texts in its output are those of stream messages
\* of that request.
C34_OnlyOwnRequest ==
    /\ cEndedBy # 0 => cEndedBy = cMsgId
    /\ cTextOf \subseteq {cMsgId}

====
